---- MODULE Spec2Model ----
(***************************************************************************)
(* Double-pendulum simulation: the integrator (getDerivatives,             *)
(* integrateRK4Step) and the simulation actor (class PendulumSimulation)   *)
(* of src/components/VelocityChaosFractalVisualizer.tsx, with the host's   *)
(* requestAnimationFrame queue and the callbacks the actor invokes; and    *)
(* the chaos map of the component VelocityChaosFractalVisualizer: the      *)
(* effect that computes the map in batches, one per animation frame.       *)
(*                                                                         *)
(* Numbers are fixed-point: a real x is the integer round(x * Scale);      *)
(* NaN and the two infinities are three more values. The denominator of    *)
(* the accelerations is rounded to MantissaBits significant bits.          *)
(* JavaScript runs each handler to completion; a handler is modelled as    *)
(* a call stack that is driven to empty before the host may call again.    *)
(***************************************************************************)
EXTENDS Integers, Sequences, FiniteSets, TLC

----------------------------------------------------------------------------
(* Fixed-point arithmetic *)

\* One unit of the fixed-point grid is 1 / Scale.
Scale == 100

\* Division rounded to the nearest integer (b > 0).
RDiv(a, b) == (2 * a + b) \div (2 * b)

\* Product of two fixed-point numbers, split so that it stays within 32 bits.
Mul(a, b) == (a \div Scale) * b + RDiv((a % Scale) * b, Scale)

Max(a, b) == IF a >= b THEN a ELSE b

\* Math.PI, Math.PI / 2 and 2 * Math.PI on the grid.
Pi == (355 * Scale) \div 113

HalfPi == Pi \div 2

TwoPi == 2 * Pi

\* sin on [0, Pi] (Bhaskara's rational approximation, exact at 0, Pi/2, Pi).
Bhaskara(y) == (16 * y * (Pi - y) * Scale) \div (5 * Pi * Pi - 4 * y * (Pi - y))

\* NaN, Infinity and -Infinity: three values above every number of the grid.
NaN == 2000000000

Infinity == 2000000001

NegInfinity == 2000000002

Finite(x) == x < NaN

\* The element of a set of one element; operands are bound to their values
\* with it before they are used.
Only(S) == CHOOSE x \in S : TRUE

\* -1, 0 or 1.
Sign(a) ==
  Only({IF x = Infinity THEN 1
        ELSE IF x = NegInfinity THEN -1
        ELSE IF x > 0 THEN 1 ELSE IF x < 0 THEN -1 ELSE 0 : x \in {a}})

\* -a
Neg(a) ==
  Only({IF Finite(x) THEN -x
        ELSE IF x = NaN THEN NaN
        ELSE IF x = Infinity THEN NegInfinity ELSE Infinity : x \in {a}})

\* a + b
Plus(a, b) ==
  Only({IF Finite(x) /\ Finite(y) THEN x + y
        ELSE IF x = NaN \/ y = NaN THEN NaN
        ELSE IF Finite(x) THEN y
        ELSE IF Finite(y) \/ x = y THEN x
        ELSE NaN : x \in {a}, y \in {b}})

\* a - b
Minus(a, b) == Plus(a, Neg(b))

\* a * b for two numbers of the grid.
Product(a, b) ==
  Only({IF Finite(x) /\ Finite(y) THEN Mul(x, y)
        ELSE IF x = NaN \/ y = NaN \/ Sign(x) * Sign(y) = 0 THEN NaN
        ELSE IF Sign(x) * Sign(y) > 0 THEN Infinity ELSE NegInfinity
        : x \in {a}, y \in {b}})

\* n * a for a plain integer n.
Scaled(n, a) ==
  Only({IF Finite(x) THEN n * x
        ELSE IF x = NaN \/ n = 0 THEN NaN
        ELSE IF n > 0 THEN x ELSE Neg(x) : x \in {a}})

\* a * num / den for a fraction num / den of plain integers, num >= 0, den > 0.
Fraction(a, num, den) ==
  Only({IF Finite(x) THEN RDiv(x * num, den)
        ELSE IF x = NaN \/ num = 0 THEN NaN
        ELSE x : x \in {a}})

\* num / (l * den) for a plain integer l > 0: a zero denominator gives
\* NaN for 0 / 0 and an infinity otherwise.
Quotient(num, l, den) ==
  Only({IF n = NaN \/ d = NaN THEN NaN
        ELSE IF ~Finite(n) THEN
          IF ~Finite(d) THEN NaN ELSE IF d >= 0 THEN n ELSE Neg(n)
        ELSE IF ~Finite(d) THEN 0
        ELSE IF d = 0 THEN
          IF n = 0 THEN NaN ELSE IF n > 0 THEN Infinity ELSE NegInfinity
        ELSE IF d > 0 THEN RDiv(RDiv(n, l) * Scale, d)
        ELSE -RDiv(RDiv(n, l) * Scale, -d) : n \in {num}, d \in {den}})

\* Significant bits that a number keeps (53 in the source's float64).
MantissaBits == 13

\* The spacing of the numbers with MantissaBits significant bits around n > 0.
Ulp(n) ==
  IF n < 2^MantissaBits THEN 1
  ELSE 2^(CHOOSE e \in 1..(30 - MantissaBits) :
            /\ 2^(MantissaBits + e - 1) <= n
            /\ (MantissaBits + e = 30 \/ n < 2^(MantissaBits + e)))

\* n > 0 rounded to a multiple of u: to nearest, ties to the even multiple.
Nearest(n, u) ==
  IF 2 * (n % u) < u \/ (2 * (n % u) = u /\ (n \div u) % 2 = 0)
  THEN (n \div u) * u
  ELSE (n \div u + 1) * u

\* The result of an operation, rounded to MantissaBits significant bits.
Fl(a) ==
  Only({IF ~Finite(x) \/ (-(2^MantissaBits) < x /\ x < 2^MantissaBits) THEN x
        ELSE IF x < 0 THEN -Only({Nearest(-x, u) : u \in {Ulp(-x)}})
        ELSE Only({Nearest(x, u) : u \in {Ulp(x)}}) : x \in {a}})

\* Math.sin and Math.cos.
Sin(x) == LET y == x % TwoPi IN IF y <= Pi THEN Bhaskara(y) ELSE -Bhaskara(y - Pi)

Cos(x) == Sin(x + HalfPi)

\* Math.sin and Math.cos of any value: NaN for NaN and the infinities.
SinOf(a) == Only({IF Finite(x) THEN Sin(x) ELSE NaN : x \in {a}})

CosOf(a) == Only({IF Finite(x) THEN Cos(x) ELSE NaN : x \in {a}})

----------------------------------------------------------------------------
(* Integrator *)

\* l1, l2, m1, m2 are plain integers; g is on the fixed-point grid.
DEFAULT_PARAMS == [l1 |-> 150, l2 |-> 150, m1 |-> 20, m2 |-> 20, g |-> Scale]

INITIAL_STATE == [theta1 |-> HalfPi, theta2 |-> HalfPi + Scale, omega1 |-> 0, omega2 |-> 0]

\* All four components are numbers of the grid.
FiniteState(state) ==
  /\ Finite(state.theta1) /\ Finite(state.theta2)
  /\ Finite(state.omega1) /\ Finite(state.omega2)

\* 2 * m1 + m2, as computed.
MassSum(params) == Fl(2 * params.m1 + params.m2)

\* The common denominator of both angular accelerations,
\* 2 * m1 + m2 - m2 * Math.cos(2 * theta1 - 2 * theta2): NaN unless both
\* angles are finite.
Den(state, params) ==
  IF Finite(state.theta1) /\ Finite(state.theta2)
  THEN Fl(MassSum(params) * Scale
          - Fl(params.m2 * Cos(2 * state.theta1 - 2 * state.theta2)))
  ELSE NaN

\* getDerivatives for a state with a NaN or infinite component.
getDerivatives_NonFinite(state, params) ==
  LET theta1 == state.theta1
      theta2 == state.theta2
      omega1 == state.omega1
      omega2 == state.omega2
      l1 == params.l1
      l2 == params.l2
      m1 == params.m1
      m2 == params.m2
      g == params.g
      delta == Minus(theta1, theta2)
      sinDelta == SinOf(delta)
      cosDelta == CosOf(delta)
      w1sq == Product(omega1, omega1)
      w2sq == Product(omega2, omega2)
      den1 == Den(state, params)
      num1 == Minus(Minus(Neg(Product(g * MassSum(params), SinOf(theta1))),
                          Product(m2 * g, SinOf(Minus(theta1, Scaled(2, theta2))))),
                    Scaled(2 * m2,
                           Product(Plus(Scaled(l2, w2sq),
                                        Product(Scaled(l1, w1sq), cosDelta)),
                                   sinDelta)))
      num2 == Scaled(2, Product(Plus(Plus(Scaled(l1 * (m1 + m2), w1sq),
                                          Product(g * (m1 + m2), CosOf(theta1))),
                                     Scaled(m2, Product(Scaled(l2, w2sq), cosDelta))),
                                sinDelta))
      den2 == Den(state, params)
  IN [dTheta1 |-> omega1,
      dTheta2 |-> omega2,
      dOmega1 |-> Quotient(num1, l1, den1),
      dOmega2 |-> Quotient(num2, l2, den2)]

getDerivatives(state, params) ==
  IF ~FiniteState(state) THEN getDerivatives_NonFinite(state, params)
  ELSE
  LET theta1 == state.theta1
      theta2 == state.theta2
      omega1 == state.omega1
      omega2 == state.omega2
      l1 == params.l1
      l2 == params.l2
      m1 == params.m1
      m2 == params.m2
      g == params.g
      delta == theta1 - theta2
      sinDelta == Sin(delta)
      cosDelta == Cos(delta)
      w1sq == Mul(omega1, omega1)
      w2sq == Mul(omega2, omega2)
      den1 == Den(state, params)
      num1 == - Mul(g * MassSum(params), Sin(theta1))
              - Mul(m2 * g, Sin(theta1 - 2 * theta2))
              - 2 * m2 * Mul(w2sq * l2 + Mul(w1sq * l1, cosDelta), sinDelta)
      num2 == 2 * Mul(w1sq * l1 * (m1 + m2)
                      + Mul(g * (m1 + m2), Cos(theta1))
                      + m2 * Mul(w2sq * l2, cosDelta), sinDelta)
      den2 == Den(state, params)
  IN [dTheta1 |-> omega1,
      dTheta2 |-> omega2,
      dOmega1 |-> Quotient(num1, l1, den1),
      dOmega2 |-> Quotient(num2, l2, den2)]

\* All four rates are numbers of the grid.
FiniteRates(k) ==
  /\ Finite(k.dTheta1) /\ Finite(k.dTheta2)
  /\ Finite(k.dOmega1) /\ Finite(k.dOmega2)

\* state + k * (num / den), component by component.
Advance(state, k, num, den) ==
  IF FiniteState(state) /\ FiniteRates(k)
  THEN [theta1 |-> state.theta1 + RDiv(k.dTheta1 * num, den),
        theta2 |-> state.theta2 + RDiv(k.dTheta2 * num, den),
        omega1 |-> state.omega1 + RDiv(k.dOmega1 * num, den),
        omega2 |-> state.omega2 + RDiv(k.dOmega2 * num, den)]
  ELSE [theta1 |-> Plus(state.theta1, Fraction(k.dTheta1, num, den)),
        theta2 |-> Plus(state.theta2, Fraction(k.dTheta2, num, den)),
        omega1 |-> Plus(state.omega1, Fraction(k.dOmega1, num, den)),
        omega2 |-> Plus(state.omega2, Fraction(k.dOmega2, num, den))]

\* a + 2 * b + 2 * c + d
Weighted(a, b, c, d) == Plus(Plus(Plus(a, Scaled(2, b)), Scaled(2, c)), d)

\* k1 + 2 * k2 + 2 * k3 + k4, component by component.
WeightedSum(k1, k2, k3, k4) ==
  IF FiniteRates(k1) /\ FiniteRates(k2) /\ FiniteRates(k3) /\ FiniteRates(k4)
  THEN [dTheta1 |-> k1.dTheta1 + 2 * k2.dTheta1 + 2 * k3.dTheta1 + k4.dTheta1,
        dTheta2 |-> k1.dTheta2 + 2 * k2.dTheta2 + 2 * k3.dTheta2 + k4.dTheta2,
        dOmega1 |-> k1.dOmega1 + 2 * k2.dOmega1 + 2 * k3.dOmega1 + k4.dOmega1,
        dOmega2 |-> k1.dOmega2 + 2 * k2.dOmega2 + 2 * k3.dOmega2 + k4.dOmega2]
  ELSE [dTheta1 |-> Weighted(k1.dTheta1, k2.dTheta1, k3.dTheta1, k4.dTheta1),
        dTheta2 |-> Weighted(k1.dTheta2, k2.dTheta2, k3.dTheta2, k4.dTheta2),
        dOmega1 |-> Weighted(k1.dOmega1, k2.dOmega1, k3.dOmega1, k4.dOmega1),
        dOmega2 |-> Weighted(k1.dOmega2, k2.dOmega2, k3.dOmega2, k4.dOmega2)]

integrateRK4Step(state, params, dt) ==
  LET k1 == getDerivatives(state, params)
      s2 == Advance(state, k1, dt, 2 * Scale)
      k2 == getDerivatives(s2, params)
      s3 == Advance(state, k2, dt, 2 * Scale)
      k3 == getDerivatives(s3, params)
      s4 == Advance(state, k3, dt, Scale)
      k4 == getDerivatives(s4, params)
  IN Advance(state, WeightedSum(k1, k2, k3, k4), dt, 6 * Scale)

----------------------------------------------------------------------------
(* The simulation actor: class PendulumSimulation *)

\* animationFrameId = null.
Null == 0

baseStepsPerFrame == 40

\* const dt = 0.01 in loop.
LoopDt == Scale \div 100

\* Longest run of frames without a reset that the model follows.
MaxFrames == 2

\* Callback references held by the consumers.
Subs == {"s1", "s2"}

Listeners == {"r1", "r2"}

\* An optional argument: Undefined, or Some(v).
Undefined == <<>>

Some(v) == <<v>>

NoArgs == <<Undefined, Undefined, Undefined, Undefined>>

\* Values of Math.random() that the model draws: both ends of [0, 1).
RandomSamples == {0, Scale - 1}

VARIABLES
  isRunning,         \* this.isRunning
  animationFrameId,  \* this.animationFrameId
  speedMultiplier,   \* this.speedMultiplier, the fraction num / den
  state,             \* this.state: the object [id, v]
  initialState,      \* this.initialState: the object [id, v]
  subscribers,       \* this.subscribers, in insertion order
  resetListeners,    \* this.resetListeners, in insertion order
  pending,           \* host: frame callbacks requested and not yet run
  firing,            \* host: callbacks of the running tick still to run
  stack,             \* the handlers and callbacks now executing
  trace,             \* callbacks invoked by the handler now executing
  lastNotified,      \* last element of the latest history passed to notify
  nFrames,           \* frames computed since construction or the last reset
  stopWindow,        \* a stop() returned and no start() or reset() followed
  calls,             \* calls made by callbacks in the handler now executing
  handles,           \* callbacks whose unregistration handle a consumer holds
  speedCalls         \* multiplySpeed calls so far: how many halved, how many doubled

vars == <<isRunning, animationFrameId, speedMultiplier, state, initialState,
          subscribers, resetListeners, pending, firing, stack, trace,
          lastNotified, nFrames, stopWindow, calls, handles, speedCalls>>

\* The chaos map of VelocityChaosFractalVisualizer: its generation effect.
VARIABLES
  runs,              \* the closures of the effect's runs: pixelIndex, data, ...
  effect,            \* the run whose effect is mounted now (0: none)
  bufferCanvas,      \* the pixels of bufferCanvasRef.current, once created
  displayCanvas,     \* the pixels renderDisplay drew last, if it has drawn
  progress,          \* React state: progress
  isProcessing,      \* React state: isProcessing
  batchQueue,        \* host: processBatch callbacks requested and not yet run
  thrown,            \* the error that left the effect, if any
  settings,          \* the module constants RESOLUTION, SIM_STEPS, DT
  cellColour,        \* Colours(settings), computed once
  stalled            \* history: a callback found no time for a cell

chaosVars == <<runs, effect, bufferCanvas, displayCanvas, progress, isProcessing,
               batchQueue, thrown, settings, cellColour, stalled>>

\* One call of integrateRK4Step by a consumer of the integrator.
VARIABLES
  stepArgs,          \* the arguments: the objects state and params, and dt
  stepReturn         \* the object returned, once the call has returned

stepVars == <<stepArgs, stepReturn>>

\* The actor's fields and the host's queue, as one value.
Actor ==
  [isRunning |-> isRunning, animationFrameId |-> animationFrameId,
   speedMultiplier |-> speedMultiplier, state |-> state,
   initialState |-> initialState, subscribers |-> subscribers,
   resetListeners |-> resetListeners, pending |-> pending \cup firing]

Range(seq) == {seq[k] : k \in 1..Len(seq)}

Last(seq) == seq[Len(seq)]

Top == stack[Len(stack)]

Pop == SubSeq(stack, 1, Len(stack) - 1)

\* The host calls into the program only when no handler is executing.
Idle == stack = <<>> /\ firing = {}

\* An activation record: fn is the function, pc its position, i the index
\* of a forEach, hist the array it passes to callbacks, gen the place of that
\* array among the arrays built since the last reset, pre the actor as it
\* was at the call.
Frame(fn, pc, hist, who, args) ==
  [fn |-> fn, pc |-> pc, i |-> 1, hist |-> hist, who |-> who, args |-> args,
   pre |-> Actor, inWindow |-> stopWindow, preStop |-> FALSE, gen |-> nFrames]

\* A callback invocation, as the handler's trace records it.
Event(e, cb, hist) ==
  [e |-> e, cb |-> cb, n |-> Len(hist),
   gen |-> IF hist = <<>> THEN 0 ELSE Top.gen,
   first |-> IF hist = <<>> THEN <<>> ELSE <<hist[1].v>>,
   running |-> isRunning, live |-> state.v,
   sched |-> Cardinality(pending \cup firing)]

\* Identities of the objects that arrays on a stack hold.
HeldIds(stk) ==
  UNION {{stk[k].hist[j].id : j \in 1..Len(stk[k].hist)} : k \in 1..Len(stk)}

\* A new object: the least identity that no live object has.
NewId(used) ==
  CHOOSE n \in 1..(Cardinality(used) + 1) :
    n \notin used /\ \A m \in 1..(n - 1) : m \in used

MaxOf(S) == CHOOSE n \in S : \A m \in S : m <= n

MinOf(S) == CHOOSE n \in S : \A m \in S : n <= m

\* Math.round of the fraction num / den (den > 0): floor(x + 1/2).
Round(num, den) == (2 * num + den) \div (2 * den)

\* The step count with the product truncated, not rounded.
Steps_Truncated ==
  Max(1, (baseStepsPerFrame * speedMultiplier.num) \div speedMultiplier.den)

\* const steps = Math.max(1, Math.round(baseStepsPerFrame * speedMultiplier)).
Steps ==
  Max(1, Round(baseStepsPerFrame * speedMultiplier.num, speedMultiplier.den))

\* The for loop of loop(): each pass integrates once and pushes the result.
RECURSIVE Integrate(_, _)
Integrate(h, n) ==
  IF Len(h) > 0 /\ n = 0 THEN h
  ELSE Integrate(Append(h, integrateRK4Step(Last(h), DEFAULT_PARAMS, LoopDt)), n - 1)

\* A history that leaves out the state at frame start.
FrameValues_NoStart(v, steps) ==
  Integrate(<<integrateRK4Step(v, DEFAULT_PARAMS, LoopDt)>>, steps)

\* history of one frame: the state at frame start, then one entry per step.
FrameValues(v, steps) == Integrate(<<v>>, steps)

\* this.loop(), entered with isRunning = running, under the stack base, with
\* the trace tr and inside a stop window or not (win): it returns at once when
\* not running, else it integrates, copies every state into history and
\* starts notify(history).
RunLoop(running, base, tr, win) ==
  IF ~running
    THEN /\ stack' = base
         /\ trace' = IF base = <<>> THEN <<>> ELSE tr
         /\ UNCHANGED <<state, nFrames>>
    ELSE \E vals \in {FrameValues(state.v, Steps)} :
           LET sid == NewId(HeldIds(base) \cup {initialState.id})
               top == MaxOf(HeldIds(base) \cup {initialState.id, sid})
               history == [k \in 1..Len(vals) |-> [id |-> top + k, v |-> vals[k]]]
           IN /\ state' = [id |-> sid, v |-> Last(vals)]
              /\ nFrames' = nFrames + 1
              /\ stack' = Append(base, [Frame("loop", "notify", history, "", <<>>)
                                           EXCEPT !.inWindow = win,
                                                  !.gen = nFrames + 1])
              /\ trace' = tr

\* start() without its early return.
StartCall_Unguarded ==
  /\ isRunning' = TRUE
  /\ RunLoop(TRUE, Append(stack, Frame("start", "ret", <<>>, "", <<>>)), trace, FALSE)
  /\ stopWindow' = FALSE
  /\ UNCHANGED <<animationFrameId, speedMultiplier, initialState, subscribers,
                 resetListeners, pending, firing, lastNotified>>

\* start()
StartCall ==
  /\ isRunning' = TRUE
  /\ RunLoop(~isRunning, Append(stack, Frame("start", "ret", <<>>, "", <<>>)), trace,
             FALSE)
  /\ stopWindow' = FALSE
  /\ UNCHANGED <<animationFrameId, speedMultiplier, initialState, subscribers,
                 resetListeners, pending, firing, lastNotified>>

\* Every frame executing when stop() is called is marked.
Marked(stk) == [k \in 1..Len(stk) |-> [stk[k] EXCEPT !.preStop = TRUE]]

\* stop()
StopCall ==
  /\ isRunning' = FALSE
  /\ animationFrameId' = Null
  /\ pending' = pending \ {animationFrameId}
  /\ firing' = firing \ {animationFrameId}
  /\ stack' = Append(Marked(stack), Frame("stop", "ret", <<>>, "", <<>>))
  /\ stopWindow' = TRUE
  /\ UNCHANGED <<speedMultiplier, state, initialState, subscribers,
                 resetListeners, trace, lastNotified, nFrames>>

\* Math.PI / 2 + base + (Math.random() * 0.5 - 0.25), for Math.random() = r.
RandomAngle(base, r) == HalfPi + base + (RDiv(r, 2) - Scale \div 4)

\* reset falling back to the live state for the arguments omitted.
ResetValue_FromLive(args, r1, r2) ==
  IF args = NoArgs
    THEN [theta1 |-> RandomAngle(0, r1), theta2 |-> RandomAngle(Scale, r2),
          omega1 |-> 0, omega2 |-> 0]
    ELSE [theta1 |-> IF args[1] # Undefined THEN args[1][1] ELSE state.v.theta1,
          theta2 |-> IF args[2] # Undefined THEN args[2][1] ELSE state.v.theta2,
          omega1 |-> IF args[3] # Undefined THEN args[3][1] ELSE state.v.omega1,
          omega2 |-> IF args[4] # Undefined THEN args[4][1] ELSE state.v.omega2]

\* reset without the branch for a call with no argument.
ResetValue_NoRandom(args, r1, r2) ==
  [theta1 |-> IF args[1] # Undefined THEN args[1][1] ELSE initialState.v.theta1,
   theta2 |-> IF args[2] # Undefined THEN args[2][1] ELSE initialState.v.theta2,
   omega1 |-> IF args[3] # Undefined THEN args[3][1] ELSE initialState.v.omega1,
   omega2 |-> IF args[4] # Undefined THEN args[4][1] ELSE initialState.v.omega2]

\* The state reset computes from its arguments and the stored initial state.
ResetValue(args, r1, r2) ==
  LET nextTheta1 == IF args[1] # Undefined THEN args[1][1] ELSE initialState.v.theta1
      nextTheta2 == IF args[2] # Undefined THEN args[2][1] ELSE initialState.v.theta2
      nextOmega1 == IF args[3] # Undefined THEN args[3][1] ELSE initialState.v.omega1
      nextOmega2 == IF args[4] # Undefined THEN args[4][1] ELSE initialState.v.omega2
  IN IF args = NoArgs
       THEN [theta1 |-> RandomAngle(0, r1), theta2 |-> RandomAngle(Scale, r2),
             omega1 |-> 0, omega2 |-> 0]
       ELSE [theta1 |-> nextTheta1, theta2 |-> nextTheta2,
             omega1 |-> nextOmega1, omega2 |-> nextOmega2]

\* reset without its opening this.stop().
ResetCall_NoStop(args, r1, r2) ==
  LET v == ResetValue(args, r1, r2)
      sid == NewId(HeldIds(stack))
      iid == NewId(HeldIds(stack) \cup {sid})
  IN /\ state' = [id |-> sid, v |-> v]
     /\ initialState' = [id |-> iid, v |-> v]
     /\ stack' = Append(stack, Frame("reset", "listeners", <<>>, "", args))
     /\ stopWindow' = FALSE
     /\ nFrames' = 0
     /\ UNCHANGED <<isRunning, animationFrameId, pending, firing, speedMultiplier,
                    subscribers, resetListeners, trace, lastNotified>>

\* reset(theta1?, theta2?, omega1?, omega2?) up to the forEach over the
\* reset listeners: stop(), the new state, the new initial state.
ResetCall(args, r1, r2) ==
  LET v == ResetValue(args, r1, r2)
      sid == NewId(HeldIds(stack))
      iid == NewId(HeldIds(stack) \cup {sid})
  IN /\ isRunning' = FALSE
     /\ animationFrameId' = Null
     /\ pending' = pending \ {animationFrameId}
     /\ firing' = firing \ {animationFrameId}
     /\ state' = [id |-> sid, v |-> v]
     /\ initialState' = [id |-> iid, v |-> v]
     /\ stack' = Append(stack, Frame("reset", "listeners", <<>>, "", args))
     /\ stopWindow' = FALSE
     /\ nFrames' = 0
     /\ UNCHANGED <<speedMultiplier, subscribers, resetListeners, trace, lastNotified>>

\* this.resetListeners.forEach(cb => cb()): the next listener is called.
InvokeResetListener ==
  /\ stack # <<>>
  /\ Top.fn = "reset" /\ Top.pc = "listeners" /\ Top.i <= Len(resetListeners)
  /\ stack' = Append(stack, Frame("cb", "run", <<>>, resetListeners[Top.i], <<>>))
  /\ trace' = Append(trace, Event("listener", resetListeners[Top.i], <<>>))
  /\ UNCHANGED <<isRunning, animationFrameId, speedMultiplier, state, initialState,
                 subscribers, resetListeners, pending, firing, lastNotified,
                 nFrames, stopWindow, calls, handles, speedCalls, chaosVars, stepVars>>

\* this.notify([this.state]) begins: the array holds the live state object.
ResetNotify ==
  /\ stack # <<>>
  /\ Top.fn = "reset" /\ Top.pc = "listeners" /\ Top.i > Len(resetListeners)
  /\ stack' = [stack EXCEPT ![Len(stack)] =
                 [@ EXCEPT !.pc = "notify", !.i = 1, !.hist = <<state>>, !.gen = 0]]
  /\ UNCHANGED <<isRunning, animationFrameId, speedMultiplier, state, initialState,
                 subscribers, resetListeners, pending, firing, trace, lastNotified,
                 nFrames, stopWindow, calls, handles, speedCalls, chaosVars, stepVars>>

\* notify(history): this.subscribers.forEach(callback => callback(history)),
\* the next subscriber is called with the array of the notifying frame.
InvokeSubscriber ==
  /\ stack # <<>>
  /\ Top.pc = "notify" /\ Top.i <= Len(subscribers)
  /\ stack' = Append(stack, Frame("cb", "run", <<>>, subscribers[Top.i], <<>>))
  /\ trace' = Append(trace, Event("notify", subscribers[Top.i], Top.hist))
  /\ UNCHANGED <<isRunning, animationFrameId, speedMultiplier, state, initialState,
                 subscribers, resetListeners, pending, firing, lastNotified,
                 nFrames, stopWindow, calls, handles, speedCalls, chaosVars, stepVars>>

\* A callback returns and the forEach that called it moves on.
CallbackReturn ==
  /\ stack # <<>>
  /\ Top.fn = "cb"
  /\ stack' = [Pop EXCEPT ![Len(stack) - 1].i = @ + 1]
  /\ UNCHANGED <<isRunning, animationFrameId, speedMultiplier, state, initialState,
                 subscribers, resetListeners, pending, firing, trace, lastNotified,
                 nFrames, stopWindow, calls, handles, speedCalls, chaosVars, stepVars>>

\* reset without its closing this.start().
ResetStart_NoRestart ==
  /\ stack # <<>>
  /\ Top.fn = "reset" /\ Top.pc = "notify" /\ Top.i > Len(subscribers)
  /\ lastNotified' = <<Last(Top.hist).v>>
  /\ stack' = [stack EXCEPT ![Len(stack)] = [@ EXCEPT !.pc = "ret", !.hist = <<>>]]
  /\ trace' = trace
  /\ UNCHANGED <<isRunning, animationFrameId, speedMultiplier, state, initialState,
                 subscribers, resetListeners, pending, firing, nFrames, stopWindow,
                 calls, handles, speedCalls, chaosVars, stepVars>>

\* The end of reset: notify has returned and this.start() is called.
ResetStart ==
  /\ stack # <<>>
  /\ Top.fn = "reset" /\ Top.pc = "notify" /\ Top.i > Len(subscribers)
  /\ lastNotified' = <<Last(Top.hist).v>>
  /\ isRunning' = TRUE
  /\ RunLoop(~isRunning,
             [stack EXCEPT ![Len(stack)] = [@ EXCEPT !.pc = "ret", !.hist = <<>>]],
             trace, FALSE)
  /\ stopWindow' = FALSE
  /\ UNCHANGED <<animationFrameId, speedMultiplier, initialState, subscribers,
                 resetListeners, pending, firing, calls, handles, speedCalls, chaosVars, stepVars>>

\* The end of loop: notify has returned and the next frame is requested.
LoopSchedule ==
  /\ stack # <<>>
  /\ Top.fn = "loop" /\ Top.pc = "notify" /\ Top.i > Len(subscribers)
  /\ LET id == NewId(pending \cup firing \cup {animationFrameId})
     IN /\ animationFrameId' = id
        /\ pending' = pending \cup {id}
  /\ lastNotified' = <<Last(Top.hist).v>>
  /\ stack' = Pop
  /\ trace' = IF Pop = <<>> THEN <<>> ELSE trace
  /\ calls' = IF Pop = <<>> THEN 0 ELSE calls
  /\ UNCHANGED <<isRunning, speedMultiplier, state, initialState, subscribers,
                 resetListeners, firing, nFrames, stopWindow, handles, speedCalls, chaosVars, stepVars>>

\* A method returns to its caller.
OpReturn ==
  /\ stack # <<>>
  /\ Top.pc = "ret"
  /\ stack' = Pop
  /\ trace' = IF Pop = <<>> THEN <<>> ELSE trace
  /\ calls' = IF Pop = <<>> THEN 0 ELSE calls
  /\ UNCHANGED <<isRunning, animationFrameId, speedMultiplier, state, initialState,
                 subscribers, resetListeners, pending, firing, lastNotified,
                 nFrames, stopWindow, handles, speedCalls, chaosVars, stepVars>>

----------------------------------------------------------------------------
(* What the host and the consumers do *)

\* sim.start() from an event handler or an effect.
Start ==
  /\ Idle
  /\ isRunning \/ nFrames < MaxFrames
  /\ StartCall
  /\ UNCHANGED <<calls, handles, speedCalls, chaosVars, stepVars>>

\* sim.stop()
Stop ==
  /\ Idle
  /\ StopCall
  /\ UNCHANGED <<calls, handles, speedCalls, chaosVars, stepVars>>

\* simulation.reset(): handleRandomReset, handleRandomPosition.
ResetRandom ==
  /\ Idle
  /\ \E r1 \in RandomSamples, r2 \in RandomSamples : ResetCall(NoArgs, r1, r2)
  /\ UNCHANGED <<calls, handles, speedCalls, chaosVars, stepVars>>

\* The values a consumer supplies for theta1, theta2, omega1, omega2.
ArgValues == <<Scale, 2 * Scale, 5 * Scale, -3 * Scale>>

\* The arguments of a reset that supplies the components in m.
ArgsFor(m) == [k \in 1..4 |-> IF k \in m THEN Some(ArgValues[k]) ELSE Undefined]

\* simulation.reset(...) with any non-empty choice of supplied arguments.
ResetWith ==
  /\ Idle
  /\ \E m \in (SUBSET (1..4)) \ {{}} : ResetCall(ArgsFor(m), 0, 0)
  /\ UNCHANGED <<calls, handles, speedCalls, chaosVars, stepVars>>

\* simulation.reset(0, 0, omega1, omega2): a click on the velocity map.
ResetClick ==
  /\ Idle
  /\ ResetCall(<<Some(0), Some(0), Some(ArgValues[3]), Some(ArgValues[4])>>, 0, 0)
  /\ UNCHANGED <<calls, handles, speedCalls, chaosVars, stepVars>>

\* simulation.reset(undefined, undefined, 0, 0): handleZeroVelocity.
ResetZeroVelocity ==
  /\ Idle
  /\ ResetCall(<<Undefined, Undefined, Some(0), Some(0)>>, 0, 0)
  /\ UNCHANGED <<calls, handles, speedCalls, chaosVars, stepVars>>

\* getState() and getInitialState(): the object returned is held by the
\* frame until the call returns.
GetCall(fn, obj) ==
  /\ stack' = Append(stack, Frame(fn, "ret",
                 <<[id |-> NewId(HeldIds(stack) \cup {state.id, initialState.id}),
                    v |-> obj.v]>>, "", <<>>))
  /\ UNCHANGED <<isRunning, animationFrameId, speedMultiplier, state, initialState,
                 subscribers, resetListeners, pending, firing, trace, lastNotified,
                 nFrames, stopWindow>>

GetState ==
  /\ Idle
  /\ GetCall("getState", state)
  /\ UNCHANGED <<calls, handles, speedCalls, chaosVars, stepVars>>

GetInitialState ==
  /\ Idle
  /\ GetCall("getInitialState", initialState)
  /\ UNCHANGED <<calls, handles, speedCalls, chaosVars, stepVars>>

\* Most multiplySpeed(0.5) calls the model follows, and the largest multiplier
\* it follows, as a power of two.
MaxHalvings == 7

MaxDoublings == 1

\* The factors the speed buttons pass: 2 and 0.5.
Double == [num |-> 2, den |-> 1]

Halve == [num |-> 1, den |-> 2]

RECURSIVE GCD(_, _)
GCD(a, b) == IF b = 0 THEN a ELSE GCD(b, a % b)

\* The product of two fractions, in lowest terms: powers of two multiply
\* exactly in floating point.
Times(a, b) ==
  LET n == a.num * b.num
      d == a.den * b.den
  IN [num |-> n \div GCD(n, d), den |-> d \div GCD(n, d)]

\* simulation.multiplySpeed(factor): this.speedMultiplier *= factor.
MultiplySpeed(factor) ==
  /\ Idle
  /\ Times(speedMultiplier, factor).num <= 2 ^ MaxDoublings
  /\ factor = Halve => speedCalls.halved < MaxHalvings
  /\ speedMultiplier' = Times(speedMultiplier, factor)
  /\ speedCalls' = IF factor = Halve
                     THEN [speedCalls EXCEPT !.halved = @ + 1]
                     ELSE [speedCalls EXCEPT !.doubled = @ + 1]
  /\ stack' = Append(stack, Frame("multiplySpeed", "ret", <<>>, "", <<factor>>))
  /\ UNCHANGED <<isRunning, animationFrameId, state, initialState, subscribers,
                 resetListeners, pending, firing, trace, lastNotified, nFrames,
                 stopWindow, calls, handles, chaosVars, stepVars>>

\* Most calls back into the simulation that the callbacks of one handler make.
MaxCalls == 2

\* A callback is executing and may call a method of the simulation.
InCallback ==
  /\ stack # <<>>
  /\ Top.fn = "cb" /\ Top.pc = "run"
  /\ calls < MaxCalls

\* A subscriber or a reset listener calls simulation.stop().
CbStop ==
  /\ InCallback
  /\ StopCall
  /\ calls' = calls + 1
  /\ UNCHANGED <<handles, speedCalls, chaosVars, stepVars>>

\* A subscriber or a reset listener calls simulation.start().
CbStart ==
  /\ InCallback
  /\ isRunning \/ nFrames < MaxFrames
  /\ StartCall
  /\ calls' = calls + 1
  /\ UNCHANGED <<handles, speedCalls, chaosVars, stepVars>>

\* The host runs the frame callbacks requested before this tick: the first.
Tick ==
  /\ Idle
  /\ pending # {}
  /\ nFrames < MaxFrames
  /\ pending' = {}
  /\ firing' = pending \ {MinOf(pending)}
  /\ RunLoop(isRunning, <<>>, <<>>, stopWindow)
  /\ UNCHANGED <<isRunning, animationFrameId, speedMultiplier, initialState,
                 subscribers, resetListeners, lastNotified, stopWindow, calls, handles, speedCalls, chaosVars, stepVars>>

\* Set.prototype.add: a value already present keeps its place.
SetAdd(seq, cb) == IF cb \in Range(seq) THEN seq ELSE Append(seq, cb)

\* Set.prototype.delete
SetDelete(seq, cb) == SelectSeq(seq, LAMBDA c : c # cb)

\* A registry kept as a list: every add appends.
Register_List(seq, cb) == Append(seq, cb)

\* this.subscribers.add(callback), this.resetListeners.add(callback)
Register(seq, cb) == SetAdd(seq, cb)

\* simulation.subscribe(cb): the consumer keeps the handle returned.
Subscribe(cb) ==
  /\ Idle
  /\ subscribers' = Register(subscribers, cb)
  /\ handles' = handles \cup {cb}
  /\ stack' = Append(stack, Frame("subscribe", "ret", <<>>, cb, <<>>))
  /\ UNCHANGED <<isRunning, animationFrameId, speedMultiplier, state, initialState,
                 resetListeners, pending, firing, trace, lastNotified, nFrames,
                 stopWindow, calls, speedCalls, chaosVars, stepVars>>

\* A handle that subscribe(cb) returned is invoked:
\* this.subscribers.delete(cb).
Unsubscribe(cb) ==
  /\ Idle
  /\ cb \in handles
  /\ subscribers' = SetDelete(subscribers, cb)
  /\ stack' = Append(stack, Frame("unsubscribe", "ret", <<>>, cb, <<>>))
  /\ UNCHANGED <<isRunning, animationFrameId, speedMultiplier, state, initialState,
                 resetListeners, pending, firing, trace, lastNotified, nFrames,
                 stopWindow, calls, handles, speedCalls, chaosVars, stepVars>>

\* simulation.addResetListener(cb)
AddResetListener(cb) ==
  /\ Idle
  /\ resetListeners' = Register(resetListeners, cb)
  /\ handles' = handles \cup {cb}
  /\ stack' = Append(stack, Frame("addResetListener", "ret", <<>>, cb, <<>>))
  /\ UNCHANGED <<isRunning, animationFrameId, speedMultiplier, state, initialState,
                 subscribers, pending, firing, trace, lastNotified, nFrames,
                 stopWindow, calls, speedCalls, chaosVars, stepVars>>

\* A handle that addResetListener(cb) returned is invoked.
RemoveResetListener(cb) ==
  /\ Idle
  /\ cb \in handles
  /\ resetListeners' = SetDelete(resetListeners, cb)
  /\ stack' = Append(stack, Frame("removeResetListener", "ret", <<>>, cb, <<>>))
  /\ UNCHANGED <<isRunning, animationFrameId, speedMultiplier, state, initialState,
                 subscribers, pending, firing, trace, lastNotified, nFrames,
                 stopWindow, calls, handles, speedCalls, chaosVars, stepVars>>

----------------------------------------------------------------------------
(* The chaos map: the generation effect of VelocityChaosFractalVisualizer *)

Min(a, b) == IF a <= b THEN a ELSE b

Abs(a) == IF a >= 0 THEN a ELSE -a

\* l1, l2, m1, m2 are plain integers; g is on the fixed-point grid.
FRACTAL_PARAMS ==
  [l1 |-> 1, l2 |-> 1, m1 |-> 1, m2 |-> 1, g |-> (981 * Scale) \div 100]

\* The map has RESOLUTION x RESOLUTION cells (250 in the source).
RESOLUTION == 4

\* The integration steps of one cell (3000 in the source).
SIM_STEPS == 2

DT == Scale \div 100

\* 0.001 in the source; here the least positive number of the grid.
EPSILON == Max(1, Scale \div 1000)

BOUNDS == [minOmega |-> -10 * Scale, maxOmega |-> 10 * Scale, range |-> 20 * Scale]

\* The number of times the effect is set up.
MaxRuns == 2

\* The module constants the effect reads.
BuildSettings == [RESOLUTION |-> RESOLUTION, SIM_STEPS |-> SIM_STEPS, DT |-> DT]

\* The builds considered: the source's, and one for each constant at zero.
Settings ==
  {BuildSettings,
   [BuildSettings EXCEPT !.RESOLUTION = 0],
   [BuildSettings EXCEPT !.SIM_STEPS = 0],
   [BuildSettings EXCEPT !.DT = 0]}

\* const totalPixels = RESOLUTION * RESOLUTION
totalPixels(c) == c.RESOLUTION * c.RESOLUTION

\* The raster indices of the cells.
Cells(c) == 0..(totalPixels(c) - 1)

\* fillStyle = '#000000': an opaque black pixel.
Black == <<0, 0, 0, 255>>

\* The pixels after fillRect(0, 0, RESOLUTION, RESOLUTION).
Cleared(c) == [i \in Cells(c) |-> Black]

\* The seeds of cell pixelIndex with x and y exchanged.
Seeds_Transposed(pixelIndex, c) ==
  LET x == pixelIndex \div c.RESOLUTION
      y == pixelIndex % c.RESOLUTION
      omega1 == BOUNDS.minOmega + RDiv(x * BOUNDS.range, c.RESOLUTION)
      omega2 == BOUNDS.minOmega + RDiv(y * BOUNDS.range, c.RESOLUTION)
  IN [s1 |-> [theta1 |-> 0, theta2 |-> 0, omega1 |-> omega1, omega2 |-> omega2],
      s2 |-> [theta1 |-> 0, theta2 |-> 0,
              omega1 |-> omega1 + EPSILON, omega2 |-> omega2 + EPSILON]]

\* The two initial states of cell pixelIndex: s1 and s2.
Seeds(pixelIndex, c) ==
  LET x == pixelIndex % c.RESOLUTION
      y == pixelIndex \div c.RESOLUTION
      omega1 == BOUNDS.minOmega + RDiv(x * BOUNDS.range, c.RESOLUTION)
      omega2 == BOUNDS.minOmega + RDiv(y * BOUNDS.range, c.RESOLUTION)
  IN [s1 |-> [theta1 |-> 0, theta2 |-> 0, omega1 |-> omega1, omega2 |-> omega2],
      s2 |-> [theta1 |-> 0, theta2 |-> 0,
              omega1 |-> omega1 + EPSILON, omega2 |-> omega2 + EPSILON]]

\* Math.sqrt of n / Scale^2 on the grid, for n < 16 * Scale^2.
Sqrt(n) ==
  LET r == CHOOSE q \in 0..(8 * Scale) : q * q <= 4 * n /\ 4 * n < (q + 1) * (q + 1)
  IN (r + 1) \div 2

\* dist = Math.min(Math.sqrt(dTheta1^2 + dTheta2^2 + dOmega1^2 + dOmega2^2), 2.0)
Distance(s1, s2) ==
  LET dTheta1 == s1.theta1 - s2.theta1
      dTheta2 == s1.theta2 - s2.theta2
      dOmega1 == s1.omega1 - s2.omega1
      dOmega2 == s1.omega2 - s2.omega2
  IN IF \E d \in {dTheta1, dTheta2, dOmega1, dOmega2} : Abs(d) >= 2 * Scale
       THEN 2 * Scale
       ELSE Min(Sqrt(dTheta1 * dTheta1 + dTheta2 * dTheta2
                     + dOmega1 * dOmega1 + dOmega2 * dOmega2), 2 * Scale)

\* One pass of the for loop: both trajectories advanced by one step.
StepBoth(seeds, c) ==
  [s1 |-> integrateRK4Step(seeds.s1, FRACTAL_PARAMS, c.DT),
   s2 |-> integrateRK4Step(seeds.s2, FRACTAL_PARAMS, c.DT)]

RECURSIVE totalDiff(_, _, _)

\* totalDiff += dist for the pair just computed, then the n - 1 passes left.
AddDist(pair, n, c) == Distance(pair.s1, pair.s2) + totalDiff(pair, n - 1, c)

\* totalDiff after n more passes of the for loop.
totalDiff(seeds, n, c) ==
  IF n = 0 THEN 0 ELSE AddDist(StepBoth(seeds, c), n, c)

\* y^5 / Scale^3, divided after every product so that it stays within 32 bits.
Fifth(y) == ((((((y * y * y) \div Scale) * y) \div Scale) * y) \div Scale)

\* Math.min(1, Math.pow(avgDist / 1.5, 0.4)): the greatest y with y^5 <= q^2.
Normalized(avgDist) ==
  LET q == RDiv(2 * avgDist, 3)
  IN IF q >= Scale THEN Scale ELSE MaxOf({y \in 0..Scale : Fifth(y) <= q * q})

\* The five segments of the colour gradient.
Gradient(intensity) ==
  LET t == 5 * intensity
  IN IF t < Scale
       THEN <<0, 0, (t * 160) \div Scale, 255>>
     ELSE IF t < 2 * Scale
       THEN <<((t - Scale) * 100) \div Scale, 0,
              160 + ((t - Scale) * 95) \div Scale, 255>>
     ELSE IF t < 3 * Scale
       THEN <<100 + ((t - 2 * Scale) * 155) \div Scale, 0,
              255 - ((t - 2 * Scale) * 255) \div Scale, 255>>
     ELSE IF t < 4 * Scale
       THEN <<255, ((t - 3 * Scale) * 200) \div Scale, 0, 255>>
     ELSE <<255, 200 + ((t - 4 * Scale) * 55) \div Scale,
            ((t - 4 * Scale) * 255) \div Scale, 255>>

\* The pixel of cell pixelIndex.  With SIM_STEPS = 0 avgDist is 0 / 0 = NaN:
\* every comparison is false, the last segment is taken and the
\* Uint8ClampedArray stores NaN as 0.
Colour(pixelIndex, c) ==
  IF c.SIM_STEPS = 0
    THEN <<255, 0, 0, 255>>
    ELSE LET seeds == Seeds(pixelIndex, c)
             avgDist == RDiv(totalDiff(seeds, c.SIM_STEPS, c), c.SIM_STEPS)
         IN Gradient(Normalized(avgDist))

\* The pixel of every cell: what one pass of the while loop writes for each
\* pixelIndex, which the constants of the build determine.
Colours(c) == [i \in Cells(c) |-> Colour(i, c)]

\* The closure of one run of the effect; batches, order and done are its
\* history: the callbacks that wrote a cell, the cells in the order they were
\* written, and whether it called setIsProcessing(false).
Run(c, id) ==
  [pixelIndex |-> 0, data |-> Cleared(c), isCancelled |-> FALSE,
   animationFrameId |-> id, batches |-> 0, order |-> <<>>, done |-> FALSE]

\* A loop that drops the cell it was computing when the time ran out.
WriteCells_DropLast(run, k) ==
  [run EXCEPT
     !.data = [i \in DOMAIN run.data |->
                 IF run.pixelIndex <= i /\ i < run.pixelIndex + k - 1
                   THEN cellColour[i] ELSE run.data[i]],
     !.pixelIndex = run.pixelIndex + k,
     !.batches = IF k > 0 THEN run.batches + 1 ELSE run.batches,
     !.order = run.order \o [j \in 1..(k - 1) |-> run.pixelIndex + j - 1]]

\* A loop that fills the buffer column by column: cell x * RESOLUTION + y.
WriteCells_Columns(run, k) ==
  LET cell(i) == (i % settings.RESOLUTION) * settings.RESOLUTION
                   + (i \div settings.RESOLUTION)
      cells == {cell(i) : i \in run.pixelIndex..(run.pixelIndex + k - 1)}
  IN [run EXCEPT
        !.data = [i \in DOMAIN run.data |->
                    IF i \in cells THEN cellColour[i] ELSE run.data[i]],
        !.pixelIndex = run.pixelIndex + k,
        !.batches = IF k > 0 THEN run.batches + 1 ELSE run.batches,
        !.order = run.order \o [j \in 1..k |-> cell(run.pixelIndex + j - 1)]]

\* The while loop of processBatch when the time of the frame allows k cells.
WriteCells(run, k) ==
  [run EXCEPT
     !.data = [i \in DOMAIN run.data |->
                 IF run.pixelIndex <= i /\ i < run.pixelIndex + k
                   THEN cellColour[i] ELSE run.data[i]],
     !.pixelIndex = run.pixelIndex + k,
     !.batches = IF k > 0 THEN run.batches + 1 ELSE run.batches,
     !.order = run.order \o [j \in 1..k |-> run.pixelIndex + j - 1]]

\* Math.round((pixelIndex / totalPixels) * 100)
Percent(pixelIndex, total) == Round(pixelIndex * 100, total)

\* The handles of the callbacks in a queue.
QueuedIds(queue) == {cb.id : cb \in queue}

\* An effect that does not call setProgress(0).
EffectSetup_NoReset ==
  /\ effect = 0
  /\ thrown = Undefined
  /\ Len(runs) < MaxRuns
  /\ IF settings.RESOLUTION = 0
       THEN \* getImageData(0, 0, 0, 0) throws
            /\ bufferCanvas' = Some(Cleared(settings))
            /\ thrown' = Some("IndexSizeError")
            /\ UNCHANGED <<runs, effect, progress, isProcessing, batchQueue>>
       ELSE LET id == NewId(QueuedIds(batchQueue))
            IN /\ bufferCanvas' = Some(Cleared(settings))
               /\ isProcessing' = TRUE
               /\ runs' = Append(runs, Run(settings, id))
               /\ effect' = Len(runs) + 1
               /\ batchQueue' = batchQueue \cup {[run |-> Len(runs) + 1, id |-> id]}
               /\ UNCHANGED <<thrown, progress>>
  /\ UNCHANGED <<displayCanvas, settings, cellColour, stalled, vars, stepVars>>

\* The effect runs: React has cleaned up the run before it, if any.
EffectSetup ==
  /\ effect = 0
  /\ thrown = Undefined
  /\ Len(runs) < MaxRuns
  /\ IF settings.RESOLUTION = 0
       THEN \* getImageData(0, 0, 0, 0) throws
            /\ bufferCanvas' = Some(Cleared(settings))
            /\ thrown' = Some("IndexSizeError")
            /\ UNCHANGED <<runs, effect, progress, isProcessing, batchQueue>>
       ELSE LET id == NewId(QueuedIds(batchQueue))
            IN /\ bufferCanvas' = Some(Cleared(settings))
               /\ isProcessing' = TRUE
               /\ progress' = 0
               /\ runs' = Append(runs, Run(settings, id))
               /\ effect' = Len(runs) + 1
               /\ batchQueue' = batchQueue \cup {[run |-> Len(runs) + 1, id |-> id]}
               /\ UNCHANGED thrown
  /\ UNCHANGED <<displayCanvas, settings, cellColour, stalled, vars, stepVars>>

\* The host runs a callback requested with requestAnimationFrame(processBatch).
ProcessBatch ==
  \E cb \in batchQueue :
    LET r == cb.run
        run == runs[r]
        total == totalPixels(settings)
    IN /\ IF run.isCancelled
            THEN /\ batchQueue' = batchQueue \ {cb}
                 /\ UNCHANGED <<runs, bufferCanvas, displayCanvas, progress, isProcessing>>
          ELSE IF run.pixelIndex >= total
            THEN /\ bufferCanvas' = Some(run.data)
                 /\ isProcessing' = FALSE
                 /\ displayCanvas' = Some(run.data)
                 /\ runs' = [runs EXCEPT ![r].done = TRUE]
                 /\ batchQueue' = batchQueue \ {cb}
                 /\ UNCHANGED progress
          ELSE \E k \in 0..(total - run.pixelIndex) :
                 LET after == WriteCells(run, k)
                     id == NewId(QueuedIds(batchQueue \ {cb}))
                 IN /\ runs' = [runs EXCEPT ![r] = [after EXCEPT !.animationFrameId = id]]
                    /\ bufferCanvas' = Some(after.data)
                    /\ progress' = Percent(after.pixelIndex, total)
                    /\ displayCanvas' = Some(after.data)
                    /\ batchQueue' = (batchQueue \ {cb}) \cup {[run |-> r, id |-> id]}
                    /\ UNCHANGED isProcessing
       /\ UNCHANGED <<effect, thrown, settings, cellColour, vars, stepVars>>

\* A cleanup that only sets the flag.
EffectCleanup_FlagOnly ==
  /\ effect # 0
  /\ runs' = [runs EXCEPT ![effect].isCancelled = TRUE]
  /\ effect' = 0
  /\ UNCHANGED <<bufferCanvas, displayCanvas, progress, isProcessing, batchQueue,
                 thrown, settings, cellColour, stalled, vars, stepVars>>

\* An effect that returns no cleanup.
EffectCleanup_None ==
  /\ effect # 0
  /\ effect' = 0
  /\ UNCHANGED <<runs, bufferCanvas, displayCanvas, progress, isProcessing,
                 batchQueue, thrown, settings, cellColour, stalled, vars, stepVars>>

\* React runs the cleanup of the mounted effect: isCancelled = true,
\* cancelAnimationFrame(animationFrameId).
EffectCleanup ==
  /\ effect # 0
  /\ runs' = [runs EXCEPT ![effect].isCancelled = TRUE]
  /\ batchQueue' = {cb \in batchQueue : cb.id # runs[effect].animationFrameId}
  /\ effect' = 0
  /\ UNCHANGED <<bufferCanvas, displayCanvas, progress, isProcessing, thrown,
                 settings, cellColour, stalled, vars, stepVars>>

\* The component before its first effect: useState(0), useState(true),
\* useRef(null).
ChaosInit ==
  /\ stalled = FALSE
  /\ runs = <<>>
  /\ effect = 0
  /\ bufferCanvas = Undefined
  /\ displayCanvas = Undefined
  /\ progress = 0
  /\ isProcessing = TRUE
  /\ batchQueue = {}
  /\ thrown = Undefined

----------------------------------------------------------------------------
(* A call of the integrator *)

\* A second mass so heavy that 2 * m1 + m2 is not a number of MantissaBits
\* significant bits for m1 = 1.
HeavyMass == 2^(MantissaBits + 2)

\* The PhysicsParams a consumer passes: those of the actor, those of the
\* chaos map, and a light first bob on short arms.
StepParams ==
  {DEFAULT_PARAMS, FRACTAL_PARAMS}
    \cup [l1 : {1}, l2 : {1, 2}, m1 : {1}, m2 : {HeavyMass}, g : {Scale}]

\* The states a consumer passes.
StepStates ==
  [theta1 : {0, HalfPi, Pi}, theta2 : {0, Scale},
   omega1 : {0, Scale \div 2}, omega2 : {0, -(Scale \div 2)}]

\* No call is made.
StepInit ==
  /\ stepArgs = [state |-> INITIAL_STATE, params |-> DEFAULT_PARAMS, dt |-> LoopDt]
  /\ stepReturn = Undefined

\* integrateRK4Step(state, params, dt) runs and returns; it assigns to no
\* field of its arguments.
StepCall ==
  /\ stepReturn = Undefined
  /\ stepReturn' = Some(integrateRK4Step(stepArgs.state, stepArgs.params, stepArgs.dt))
  /\ UNCHANGED <<stepArgs, vars, chaosVars>>

\* The actor after its constructor.
ActorInit ==
  /\ isRunning = FALSE
  /\ animationFrameId = Null
  /\ speedMultiplier = [num |-> 1, den |-> 1]
  /\ state = [id |-> 1, v |-> INITIAL_STATE]
  /\ initialState = [id |-> 2, v |-> INITIAL_STATE]
  /\ subscribers = <<>>
  /\ resetListeners = <<>>
  /\ pending = {}
  /\ firing = {}
  /\ stack = <<>>
  /\ trace = <<>>
  /\ lastNotified = <<>>
  /\ nFrames = 0
  /\ stopWindow = FALSE
  /\ calls = 0
  /\ handles = {}
  /\ speedCalls = [halved |-> 0, doubled |-> 0]

Init ==
  /\ ActorInit
  /\ ChaosInit
  /\ StepInit
  /\ settings = BuildSettings
  /\ cellColour = Colours(settings)

Next ==
  \/ Start
  \/ Stop
  \/ ResetClick
  \/ ResetZeroVelocity
  \/ Tick
  \/ GetState
  \/ GetInitialState
  \/ \E cb \in Subs : Subscribe(cb)
  \/ \E cb \in Subs : Unsubscribe(cb)
  \/ \E cb \in Listeners : AddResetListener(cb)
  \/ \E cb \in Listeners : RemoveResetListener(cb)
  \/ InvokeResetListener
  \/ ResetNotify
  \/ InvokeSubscriber
  \/ CallbackReturn
  \/ ResetStart
  \/ LoopSchedule
  \/ OpReturn

Spec == Init /\ [][Next]_vars

\* The actor with no consumer registered, under every shape of reset.
NextReset ==
  \/ Start
  \/ Stop
  \/ ResetRandom
  \/ ResetWith
  \/ Tick
  \/ GetInitialState
  \/ ResetNotify
  \/ ResetStart
  \/ LoopSchedule
  \/ OpReturn

SpecReset == Init /\ [][NextReset]_vars

\* The speed buttons, with one subscriber and the loop's life cycle.
NextSpeed ==
  \/ MultiplySpeed(Double)
  \/ MultiplySpeed(Halve)
  \/ Start
  \/ Stop
  \/ ResetClick
  \/ Tick
  \/ Subscribe("s1")
  \/ ResetNotify
  \/ InvokeSubscriber
  \/ CallbackReturn
  \/ ResetStart
  \/ LoopSchedule
  \/ OpReturn

SpecSpeed == Init /\ [][NextSpeed]_vars

\* Callbacks that call stop() and start() from inside a notification.
NextReentrant ==
  \/ Start
  \/ Stop
  \/ Tick
  \/ \E cb \in Subs : Subscribe(cb)
  \/ InvokeSubscriber
  \/ CallbackReturn
  \/ LoopSchedule
  \/ OpReturn
  \/ CbStop
  \/ CbStart

SpecReentrant == Init /\ [][NextReentrant]_vars

\* The chaos map under every build: the effect is set up, its batches run
\* when the host fires them, and React cleans the effect up at any time
\* between two callbacks.
InitChaos ==
  /\ ActorInit
  /\ ChaosInit
  /\ StepInit
  /\ settings \in Settings
  /\ cellColour = Colours(settings)

\* The host runs a callback; no history of it is kept.
Batch == ProcessBatch /\ UNCHANGED stalled

NextChaos ==
  \/ EffectSetup
  \/ Batch
  \/ EffectCleanup

SpecChaos == InitChaos /\ [][NextChaos]_<<vars, chaosVars>>

\* The component is mounted once: its effect runs once.
Mount == EffectSetup /\ runs = <<>>

\* The host runs a callback of a run that was not cancelled and has cells
\* left, and the callback finds no time for a cell.
NoCell ==
  /\ \E cb \in batchQueue :
       /\ ~runs[cb.run].isCancelled
       /\ runs[cb.run].pixelIndex < totalPixels(settings)
  /\ \A r \in 1..Len(runs) : runs'[r].pixelIndex = runs[r].pixelIndex

\* The host runs a callback, and the history records whether it was idle.
WatchedBatch == ProcessBatch /\ stalled' = (stalled \/ NoCell)

NextMounted ==
  \/ Mount
  \/ WatchedBatch
  \/ EffectCleanup

\* One mount of the component, under every build, on a host that keeps
\* firing the callbacks requested.  A callback that writes no cell leaves the
\* run as it was, so the fairness asks for callbacks that do something: a
\* host on which every callback finds no time for a cell is left out.
SpecChaosFair ==
  /\ InitChaos
  /\ [][NextMounted]_<<vars, chaosVars>>
  /\ WF_<<vars, chaosVars>>(WatchedBatch)

\* The integrator alone: one call with a zero or the loop's time step.
InitStep ==
  /\ ActorInit
  /\ ChaosInit
  /\ settings = BuildSettings
  /\ cellColour = Colours(settings)
  /\ stepArgs \in [state : StepStates, params : StepParams, dt : {0, LoopDt}]
  /\ stepReturn = Undefined

NextStep == StepCall

SpecStep == InitStep /\ [][NextStep]_<<vars, chaosVars, stepVars>>

----------------------------------------------------------------------------
(* Claims *)

\* The handler fn has done all its work and is about to return to the host.
Returning(fn) == Len(stack) = 1 /\ Top.fn = fn /\ Top.pc = "ret"

\* The trace of one notify(history) with n elements: every cb of cbs once, in order.
Deliveries(cbs, n) == [k \in 1..Len(cbs) |-> [cb |-> cbs[k], n |-> n]]

\* The notify events of the trace, reduced to callback and history length.
Notified == [k \in 1..Len(trace) |-> [cb |-> trace[k].cb, n |-> trace[k].n]]

\* C1: start() on a Stopped actor makes it Running and begins the step loop
\* (one frame is integrated and delivered, one loop callback is requested);
\* start() on a Running actor delivers no frame, changes no field and
\* requests no further callback.
C1_StartStartsOrIsNoOp ==
  Returning("start") =>
    IF Top.pre.isRunning
      THEN Actor = Top.pre /\ trace = <<>>
      ELSE /\ isRunning
           /\ state.v = Last(FrameValues(Top.pre.state.v, Steps))
           /\ Notified = Deliveries(subscribers, Steps + 1)
           /\ Top.pre.pending = {}
           /\ pending = {animationFrameId}

\* start() has been called on a Running actor with a subscriber registered.
C1_Witness ==
  /\ Returning("start")
  /\ Top.pre.isRunning
  /\ subscribers # <<>>
  /\ pending # {}

\* A subscriber has been called with a history after a stop() returned and
\* before the next start() or reset() was called.
NotifiedAfterStop ==
  \E k \in 2..Len(stack) :
    stack[k].fn = "cb" /\ stack[k - 1].pc = "notify" /\ stack[k].inWindow

\* A frame has been integrated after a stop() returned and before the next
\* start() or reset() was called.
AdvancedAfterStop ==
  \E k \in 1..Len(stack) : stack[k].fn = "loop" /\ stack[k].inWindow

\* C2: when stop() returns the actor is Stopped with no loop callback of its
\* own, a stop() on an actor already so changes nothing, and from then until
\* the next start() or reset() no frame is integrated and no subscriber is
\* called, also when stop() was called from inside a callback.
C2_StopHalts ==
  /\ (stack # <<>> /\ Top.fn = "stop") =>
       /\ ~isRunning
       /\ animationFrameId = Null
       /\ (~Top.pre.isRunning /\ Top.pre.animationFrameId = Null) => Actor = Top.pre
  /\ ~AdvancedAfterStop
  /\ ~NotifiedAfterStop

\* C11: every subscriber receives the histories in the order in which they
\* were built: no subscriber is called with a history after it was called, in
\* the same handler, with one built later, also when callbacks call stop()
\* and start() while a notification is in progress.
C11_GenerationOrder ==
  \A j \in 1..Len(trace) : \A k \in j..Len(trace) :
    (trace[j].e = "notify" /\ trace[k].e = "notify" /\ trace[j].cb = trace[k].cb)
      => trace[j].gen <= trace[k].gen

\* C12: a multi-step frame is built and delivered only by the loop callback
\* that the host runs on a tick, never inside start(), stop() or reset(), so
\* that at most one frame is delivered between two ticks of the host.
C12_OneFramePerTick ==
  \A k \in 1..Len(stack) : stack[k].fn = "loop" => k = 1

\* The run whose progress and processing flag are published: the latest.
Latest == runs[Len(runs)]

\* C13: the published progress is 100 exactly when the run has published
\* done: 100 is not published while a cell is unwritten or while the
\* processing flag is still set, and done is not published below 100.
C13_HundredIffDone ==
  runs # <<>> =>
    /\ progress = 100 =>
          ~isProcessing /\ Latest.pixelIndex = totalPixels(settings)
    /\ ~isProcessing => progress = 100

\* C14: within one run the published progress never decreases from one
\* batch callback to the next and is 0 when the run starts, and the number
\* of completed cells of a run never decreases.
C14_ProgressMonotone ==
  /\ [](runs # <<>> /\ Latest.pixelIndex = 0 => progress = 0)
  /\ [][Len(runs') = Len(runs) =>
          /\ progress' >= progress
          /\ \A r \in 1..Len(runs) : runs'[r].pixelIndex >= runs[r].pixelIndex]_<<vars, chaosVars>>

\* A second run of the effect has raised the progress in two batches.
C14_Witness ==
  Len(runs) = 2 /\ Latest.batches >= 2 /\ progress > 0 /\ progress < 100

\* The runs whose cleanup React has run.
CleanedUp == {r \in 1..Len(runs) : r # effect}

\* The pixels of a run that has completed the cells before pixelIndex.
Partial(pixelIndex) ==
  [i \in Cells(settings) |-> IF i < pixelIndex THEN cellColour[i] ELSE Black]

\* C15: once the cleanup of a run has been invoked the run writes no cell,
\* publishes no progress and no done, refreshes no display and has no batch
\* scheduled; no error is raised, and its buffer keeps exactly the cells it
\* had completed.
C15_CancelSafety ==
  /\ [](\A r \in CleanedUp :
          /\ \A cb \in batchQueue : cb.run # r
          /\ runs[r].data = Partial(runs[r].pixelIndex)
          /\ thrown = Undefined)
  /\ [][\A r \in CleanedUp : runs'[r] = runs[r]]_<<vars, chaosVars>>
  /\ [][runs # <<>> /\ effect = 0 /\ effect' = 0 =>
          UNCHANGED <<progress, isProcessing, displayCanvas, bufferCanvas,
                      batchQueue>>]_<<vars, chaosVars>>

\* A run was cleaned up with some cells unwritten, and a later run has
\* written cells since.
C15_Witness ==
  /\ Len(runs) = 2
  /\ runs[1].pixelIndex > 0
  /\ runs[1].pixelIndex < totalPixels(settings)
  /\ ~runs[1].done
  /\ runs[2].pixelIndex > runs[1].pixelIndex

\* The cells below the fraction progress / 100 of the raster.
Covered == {i \in Cells(settings) : i * 100 < progress * totalPixels(settings)}

\* C16: whenever a progress is published, every cell whose raster index is
\* below progress / 100 of the cells has been written with its final colour.
C16_RasterOrder ==
  runs # <<>> =>
    \A i \in Covered : i < Latest.pixelIndex /\ Latest.data[i] = cellColour[i]

\* The runs that have published done.
Completed == {r \in 1..Len(runs) : runs[r].done}

\* C17: the buffer of a completed run is determined by the constants of the
\* build alone: it holds the colour of every cell, whatever the cells at
\* which its batches were cut, so that two completed runs have equal buffers;
\* the colours are those computed from the build's constants before any run.
C17_Determinism ==
  /\ \A r \in Completed : runs[r].data = cellColour
  /\ \A r, q \in Completed : runs[r].data = runs[q].data
  /\ runs = <<>> => cellColour = Colours(settings)

\* Two runs have completed in different numbers of batches.
C17_Witness ==
  /\ Completed = {1, 2}
  /\ runs[1].batches = 1
  /\ runs[2].batches = totalPixels(settings)
  /\ settings = BuildSettings

\* The runs that can still write: not cancelled, or with a callback queued.
Writers ==
  {r \in 1..Len(runs) : ~runs[r].isCancelled \/ \E cb \in batchQueue : cb.run = r}

\* C18: when the effect runs again the earlier run has been cancelled before
\* the new run requests its first batch: at most one run can write, it is the
\* run of the mounted effect, the buffer canvas holds that run's pixels only,
\* and a new run starts from a buffer that is black in every cell.
C18_NewRunSupersedes ==
  /\ Writers \subseteq {effect}
  /\ Cardinality(batchQueue) <= 1
  /\ runs # <<>> => bufferCanvas = Some(Latest.data)
  /\ \A r \in 1..Len(runs) :
        runs[r].pixelIndex = 0 => runs[r].data = Cleared(settings)

\* The effect has run again after a run that was cut short: the new run has
\* its first batch requested and has written no cell yet.
C18_Witness ==
  /\ Len(runs) = 2
  /\ effect = 2
  /\ runs[1].pixelIndex > 0
  /\ ~runs[1].done
  /\ runs[2].pixelIndex = 0
  /\ batchQueue # {}

\* A build whose resolution, step count or time step is not positive.
Invalid(c) == c.RESOLUTION <= 0 \/ c.SIM_STEPS <= 0 \/ c.DT <= 0

Written == {i \in Cells(settings) : \E r \in 1..Len(runs) : i < runs[r].pixelIndex}

\* C20: the cell of raster index i, in column x = i mod R and row
\* y = floor(i / R), seeds trajectory A at rest angles 0 with
\* omega1 = min + (x / R) * range and omega2 = min + (y / R) * range, and
\* trajectory B at the same angles with both velocities larger by EPSILON;
\* on 4 x 4 cells over [-10, 10] each velocity takes the values -10, -5, 0, 5.
C20_CellSeeds ==
  /\ \A i \in Written :
        LET R == settings.RESOLUTION
            x == i % R
            y == i \div R
            A == Seeds(i, settings).s1
            B == Seeds(i, settings).s2
        IN /\ A.theta1 = 0 /\ A.theta2 = 0
           /\ 2 * Abs(R * (A.omega1 - BOUNDS.minOmega) - x * BOUNDS.range) <= R
           /\ 2 * Abs(R * (A.omega2 - BOUNDS.minOmega) - y * BOUNDS.range) <= R
           /\ B = [theta1 |-> 0, theta2 |-> 0,
                   omega1 |-> A.omega1 + EPSILON, omega2 |-> A.omega2 + EPSILON]
  /\ (settings.RESOLUTION = 4 /\ Written = 0..15) =>
        /\ {Seeds(i, settings).s1.omega1 : i \in Written}
              = {-10 * Scale, -5 * Scale, 0, 5 * Scale}
        /\ {Seeds(i, settings).s1.omega2 : i \in Written}
              = {-10 * Scale, -5 * Scale, 0, 5 * Scale}
        /\ \A x, y \in 0..3 :
              /\ Seeds(4 * y + x, settings).s1.omega1 = (5 * x - 10) * Scale
              /\ Seeds(4 * y + x, settings).s1.omega2 = (5 * y - 10) * Scale

\* A run of the source's build has seeded and written every cell.
C20_Witness ==
  /\ settings = BuildSettings
  /\ Written = Cells(settings)
  /\ Len(runs) = 1
  /\ ~Latest.done

\* C23: reset(undefined, undefined, 0, 0) returns with both velocities 0 and
\* with the angles that the live state had when it was called.
C23_ZeroVelKeepsAngles ==
  (Returning("reset") /\ Top.args = <<Undefined, Undefined, Some(0), Some(0)>>) =>
    /\ initialState.v.omega1 = 0 /\ initialState.v.omega2 = 0
    /\ state.v.omega1 = 0 /\ state.v.omega2 = 0
    /\ initialState.v.theta1 = Top.pre.state.v.theta1
    /\ initialState.v.theta2 = Top.pre.state.v.theta2

\* C24: at most one loop callback is pending with the host at any time, also
\* when subscribers call stop() and start() while a frame is delivered.
C24_SingleLoop == Cardinality(pending) <= 1

\* The cells below n, in raster order.
Raster(n) == [j \in 1..n |-> j - 1]

\* C22: a run writes the cells in raster order from cell 0, each once; after
\* every batch the cells written are those below pixelIndex, and a batch
\* leaves the cells below pixelIndex as they are.
C22_OnePass ==
  /\ [](\A r \in 1..Len(runs) : runs[r].order = Raster(runs[r].pixelIndex))
  /\ [][\A r \in 1..Len(runs) :
          \A i \in 0..(runs[r].pixelIndex - 1) :
            runs'[r].data[i] = runs[r].data[i]]_<<vars, chaosVars>>

\* A run has written every cell, in more than one batch.
C22_Witness ==
  \E r \in 1..Len(runs) :
    /\ runs[r].pixelIndex = totalPixels(settings)
    /\ runs[r].batches >= 2
    /\ runs[r].order = Raster(totalPixels(settings))

\* The callbacks of run r that the host still holds.
Scheduled(r) == {cb \in batchQueue : cb.run = r}

\* Run r was cancelled or has published done.
Ended(r) == r <= Len(runs) /\ (runs[r].isCancelled \/ runs[r].done)

\* Every run is cancelled or publishes done; it publishes done with all
\* cells written and no callback requested, and after it the run does nothing
\* more (a cleanup may still set its flag).  Holds under SpecChaosFair.
RunTerminates ==
  /\ \A r \in 1..MaxRuns : (r <= Len(runs)) ~> Ended(r)
  /\ [](\A r \in 1..Len(runs) :
          runs[r].done =>
            /\ runs[r].order = Raster(totalPixels(settings))
            /\ Scheduled(r) = {})
  /\ [][\A r \in 1..Len(runs) :
          runs[r].done =>
            [runs'[r] EXCEPT !.isCancelled = runs[r].isCancelled] = runs[r]]_<<vars, chaosVars>>

\* C25: on a host that keeps firing the callbacks requested, every callback
\* of a run writes at least one cell, every run is cancelled or publishes
\* done, with all cells written, and after done the run requests no callback
\* and does nothing more.
C25_RunTerminates ==
  /\ [](~stalled)
  /\ RunTerminates

\* A run that was never cancelled has published done, after a callback that
\* wrote no cell.
C25_Witness ==
  \E r \in 1..Len(runs) :
    /\ runs[r].done
    /\ ~runs[r].isCancelled
    /\ runs[r].batches >= 2
    /\ stalled

\* The call of integrateRK4Step has returned.
Returned == stepReturn # Undefined

\* l1, l2, m1 and m2 are positive.
Valid(params) == params.l1 > 0 /\ params.l2 > 0 /\ params.m1 > 0 /\ params.m2 > 0

\* C21: a step of length zero on a finite state, with positive lengths and
\* masses, returns a state equal to the input in all four components.
C21_ZeroStepIdentity ==
  (/\ Returned
   /\ stepArgs.dt = 0
   /\ FiniteState(stepArgs.state)
   /\ Valid(stepArgs.params)) =>
    /\ stepReturn[1].theta1 = stepArgs.state.theta1
    /\ stepReturn[1].theta2 = stepArgs.state.theta2
    /\ stepReturn[1].omega1 = stepArgs.state.omega1
    /\ stepReturn[1].omega2 = stepArgs.state.omega2

\* C26: with positive masses, the denominator that getDerivatives divides by
\* lies between 2 * m1 and 2 * m1 + 2 * m2 and is not zero.
C26_DenominatorPositive ==
  (Returned /\ stepArgs.params.m1 > 0 /\ stepArgs.params.m2 > 0) =>
    /\ Den(stepArgs.state, stepArgs.params) >= 2 * stepArgs.params.m1 * Scale
    /\ Den(stepArgs.state, stepArgs.params)
         <= (2 * stepArgs.params.m1 + 2 * stepArgs.params.m2) * Scale
    /\ Den(stepArgs.state, stepArgs.params) > 0

\* C3: reset leaves the actor Running, whatever arguments are supplied and
\* whether it was Stopped or Running at the call.
C3_ResetLeavesRunning ==
  Returning("reset") => isRunning /\ pending = {animationFrameId}

\* reset(theta1, omega2) has been called on a Stopped actor.
C3_Witness ==
  /\ Returning("reset")
  /\ ~Top.pre.isRunning
  /\ Top.args = ArgsFor({1, 4})
  /\ isRunning

\* The components of a state, in the order of reset's parameters.
Components(v) == <<v.theta1, v.theta2, v.omega1, v.omega2>>

\* C4: after a reset with at least one argument the initial state has each
\* supplied component equal to the argument and each omitted component equal
\* to that of the initial state before the call.
C4_ResetComposes ==
  (Returning("reset") /\ Top.args # NoArgs) =>
    \A k \in 1..4 :
      Components(initialState.v)[k] =
        IF Top.args[k] # Undefined THEN Top.args[k][1]
        ELSE Components(Top.pre.initialState.v)[k]

\* reset(theta1 = X) has been called when the stored initial state came from
\* an earlier reset and the live state had moved away from it.
C4_Witness ==
  /\ Returning("reset")
  /\ Top.args = ArgsFor({1})
  /\ Top.pre.initialState.v.theta2 # INITIAL_STATE.theta2
  /\ Top.pre.initialState.v.omega1 # 0
  /\ Top.pre.state.v.theta2 # Top.pre.initialState.v.theta2
  /\ initialState.v.theta1 = ArgValues[1]

\* C5: reset() with no argument yields zero velocities and angles within
\* 0.25 of pi/2 and of pi/2 + 1, whatever the initial state was before.
C5_NoArgumentReset ==
  (Returning("reset") /\ Top.args = NoArgs) =>
    /\ initialState.v.omega1 = 0
    /\ initialState.v.omega2 = 0
    /\ initialState.v.theta1 >= HalfPi - Scale \div 4
    /\ initialState.v.theta1 <= HalfPi + Scale \div 4
    /\ initialState.v.theta2 >= HalfPi + Scale - Scale \div 4
    /\ initialState.v.theta2 <= HalfPi + Scale + Scale \div 4

\* reset() has been called when the stored initial state had velocities and
\* angles outside the random range.
C5_Witness ==
  /\ Returning("reset")
  /\ Top.args = NoArgs
  /\ Top.pre.initialState.v.omega1 # 0
  /\ Top.pre.initialState.v.omega2 # 0
  /\ Top.pre.initialState.v.theta1 < HalfPi - Scale \div 4
  /\ Top.pre.initialState.v.theta2 < HalfPi + Scale - Scale \div 4
  /\ initialState.v.omega1 = 0

\* The events of the trace that satisfy P, as a set of positions.
EventsOf(P(_)) == {k \in 1..Len(trace) : P(trace[k])}

\* C6: within one reset() the loop is stopped and its pending callback
\* cancelled, the live state and the initial state are set to the new state,
\* then every reset listener is invoked once, then every subscriber receives
\* one history whose only element is the new state, and only then is the loop
\* restarted; no multi-step frame is delivered before the single-element one.
C6_ResetOrder ==
  Returning("reset") =>
    LET L == Len(resetListeners)
        S == Len(subscribers)
        new == initialState.v
    IN /\ Len(trace) = L + 2 * S
       /\ \A k \in 1..L :
            trace[k] = [e |-> "listener", cb |-> resetListeners[k], n |-> 0,
                        gen |-> 0, first |-> <<>>, running |-> FALSE, live |-> new,
                        sched |-> 0]
       /\ \A k \in 1..S :
            trace[L + k] = [e |-> "notify", cb |-> subscribers[k], n |-> 1,
                            gen |-> 0, first |-> <<new>>, running |-> FALSE, live |-> new,
                            sched |-> 0]
       /\ \A k \in 1..S :
            /\ trace[L + S + k].e = "notify"
            /\ trace[L + S + k].cb = subscribers[k]
            /\ trace[L + S + k].n = Steps + 1
            /\ trace[L + S + k].first = <<new>>
            /\ trace[L + S + k].running

\* reset has been called on a Running actor with a callback pending, two
\* reset listeners and two subscribers.
C6_Witness ==
  /\ Returning("reset")
  /\ Top.pre.isRunning
  /\ Top.pre.pending # {}
  /\ Len(resetListeners) = 2
  /\ Len(subscribers) = 2
  /\ Top.pre.state.v # initialState.v

\* The objects a consumer holds now: the return value of getState() or
\* getInitialState(), or the elements of the history a subscriber was called with.
Handed ==
  IF stack = <<>> THEN {}
  ELSE IF Top.fn \in {"getState", "getInitialState"} THEN Range(Top.hist)
  ELSE IF Top.fn = "cb" /\ stack[Len(stack) - 1].pc = "notify"
    THEN Range(stack[Len(stack) - 1].hist)
  ELSE {}

\* C7: no object handed to a consumer is the actor's live state object or its
\* initial-state object.
C7_ConsumersSeeCopies ==
  \A o \in Handed : o.id # state.id /\ o.id # initialState.id

\* The number of times cb was called with a history of n elements (n = 0: as
\* a reset listener) by the handler now executing.
TimesCalled(cb, n) ==
  Cardinality(EventsOf(LAMBDA ev : ev.cb = cb /\ ev.n = n))

\* C8: the registries are sets. Registering a callback that is registered
\* leaves the registry as it was; when a notification ends every registered
\* callback has been invoked exactly once by it and a callback whose handle
\* was invoked, and that was not registered again, not at all.
C8_RegistriesAreSets ==
  /\ Returning("subscribe") =>
       /\ Top.who \in Range(subscribers)
       /\ Top.who \in Range(Top.pre.subscribers) => subscribers = Top.pre.subscribers
  /\ Returning("addResetListener") =>
       /\ Top.who \in Range(resetListeners)
       /\ Top.who \in Range(Top.pre.resetListeners) =>
            resetListeners = Top.pre.resetListeners
  /\ Returning("unsubscribe") => Top.who \notin Range(subscribers)
  /\ Returning("removeResetListener") => Top.who \notin Range(resetListeners)
  /\ (stack # <<>> /\ Top.pc = "notify" /\ Top.i > Len(subscribers)) =>
       \A cb \in Subs :
         TimesCalled(cb, Len(Top.hist)) = IF cb \in Range(subscribers) THEN 1 ELSE 0
  /\ (stack # <<>> /\ Top.fn = "reset" /\ Top.pc = "notify") =>
       \A cb \in Listeners :
         TimesCalled(cb, 0) = IF cb \in Range(resetListeners) THEN 1 ELSE 0

\* A frame's notification has ended with one subscriber registered and
\* another unregistered through its handle; likewise the reset listeners.
C8_Witness ==
  /\ stack # <<>>
  /\ stack[1].fn = "reset"
  /\ Top.fn = "loop" /\ Top.pc = "notify" /\ Top.i > Len(subscribers)
  /\ \E a \in Range(subscribers) : \E b \in (handles \cap Subs) \ Range(subscribers) :
       TimesCalled(a, Steps + 1) = 1 /\ TimesCalled(b, Steps + 1) = 0
  /\ \E a \in Range(resetListeners) :
       \E b \in (handles \cap Listeners) \ Range(resetListeners) :
         TimesCalled(a, 0) = 1 /\ TimesCalled(b, 0) = 0

\* C9: in every multi-step frame the first element of the history is the
\* last element of the notification before it, each element after the first
\* is the integrator applied once to the element before it, and the last
\* element is the live state.
C9_FrameContinuity ==
  \A k \in 1..Len(stack) :
    stack[k].fn = "loop" =>
      LET h == stack[k].hist
      IN /\ lastNotified # <<>> => h[1].v = lastNotified[1]
         /\ Last(h).v = state.v
         /\ stack[k].i = 1 =>
              \A j \in 1..(Len(h) - 1) :
                h[j + 1].v = integrateRK4Step(h[j].v, DEFAULT_PARAMS, LoopDt)

\* A frame that start() computed after a stop, following an earlier frame:
\* its notification has ended and the state moved during the frame.
C9_Witness ==
  /\ Len(stack) = 2
  /\ stack[1].fn = "start"
  /\ Top.fn = "loop" /\ Top.i > Len(subscribers)
  /\ subscribers # <<>>
  /\ nFrames = 2
  /\ lastNotified # <<>>
  /\ Top.hist[1].v.omega1 # Last(Top.hist).v.omega1
  /\ Top.hist[1].v.theta2 # Last(Top.hist).v.theta2

\* The steps of one frame when the multiplier is 2 ^ e: 40 * 2 ^ e for
\* e >= 0, else 40 / 2 ^ -e rounded half up and raised to 1.
StepsAt(e) ==
  IF e >= 0 THEN 40 * 2 ^ e
  ELSE LET q == (80 + 2 ^ (0 - e)) \div (2 * 2 ^ (0 - e))
       IN IF q < 1 THEN 1 ELSE q

====
